---- MODULE Spec2Model ----
(***************************************************************************)
(* Payment-and-entitlement reconciliation core of the VideoHub backend:    *)
(* the Stripe webhook view (apps/payment/views.py), the Payment and        *)
(* WebhookEvent rows (apps/payment/models.py), the Celery activation task  *)
(* (apps/payment/tasks.py) and the Subscription row                        *)
(* (apps/subscribe/models.py).                                             *)
(*                                                                         *)
(* Every action is one database statement or one broker call of the code,  *)
(* together with the local computation around it; gunicorn runs several    *)
(* sync workers and Celery several task slots, so the statements of        *)
(* different requests and tasks interleave.  There is no ATOMIC_REQUESTS   *)
(* and no transaction.atomic in the code: every save commits on its own.   *)
(* Time is counted in whole days.                                          *)
(***************************************************************************)
EXTENDS Integers, Sequences, FiniteSets, TLC

(* ---------------------------- bounds ----------------------------------- *)
MaxNow == 60
TickDays == 30
MaxDeliveries == 2
MaxOutages == 1
MaxCalls == 2
MaxKills == 1

(* ------------------------ program constants ---------------------------- *)
DaysPerMonth == 30
max_retries == 3
DailyLimitSeconds == 3600
HoursPerDay == 24
Unlimited == -1

\* two of the sync worker processes gunicorn starts: a race needs two
Workers == {1, 2}
CeleryWorkers == {"c1"}
Users == {"u1"}
PaymentIntents == {"pi_1"}
\* two open sessions of a viewer: a race needs two
Sessions == {"s1", "s2"}
AnonymousUser == "anonymous"
\* DailyWatchLimit.date: the calendar days the clock can show
Dates == {d \in 0 .. MaxNow : d % TickDays = 0}

NoTime == -1
NoUser == ""

(* The gateway's events: an event id always denotes the same event.        *)
EventIds ==
    {"evt_cs_paid", "evt_cs_unpaid", "evt_pi_ok", "evt_pi_fail",
     "evt_refund", "evt_other"}

Event(e) ==
    CASE e = "evt_cs_paid" ->
           [type |-> "checkout.session.completed", payment_intent |-> "pi_1",
            user_id |-> "u1", subscription_months |-> 1,
            payment_status |-> "paid"]
      [] e = "evt_cs_unpaid" ->
           [type |-> "checkout.session.completed", payment_intent |-> "pi_1",
            user_id |-> "u1", subscription_months |-> 1,
            payment_status |-> "unpaid"]
      [] e = "evt_pi_ok" ->
           [type |-> "payment_intent.succeeded", payment_intent |-> "pi_1",
            user_id |-> NoUser, subscription_months |-> 1,
            payment_status |-> ""]
      [] e = "evt_pi_fail" ->
           [type |-> "payment_intent.payment_failed",
            payment_intent |-> "pi_1",
            user_id |-> NoUser, subscription_months |-> 1,
            payment_status |-> ""]
      [] e = "evt_refund" ->
           [type |-> "charge.refunded", payment_intent |-> "pi_1",
            user_id |-> NoUser, subscription_months |-> 1,
            payment_status |-> ""]
      [] OTHER ->
           [type |-> "customer.created", payment_intent |-> "pi_1",
            user_id |-> NoUser, subscription_months |-> 1,
            payment_status |-> ""]

Signatures == {"missing", "invalid", "valid"}

\* a request that does not verify never yields an event, whatever its
\* payload: one forged payload stands for all of them
ForgedEvents == {"evt_cs_paid"}
Requests ==
    (EventIds \X {"valid"}) \cup (ForgedEvents \X {"missing", "invalid"})

(* ------------------------------ rows ----------------------------------- *)
NoPayment ==
    [exists |-> FALSE, status |-> "", completed_at |-> NoTime,
     user |-> NoUser, subscription_months |-> 0]

NoSubscription ==
    [exists |-> FALSE, start_date |-> NoTime, end_date |-> NoTime,
     is_active |-> FALSE]

NoRequest == [event |-> "", handle |-> 0, status |-> "", err |-> ""]
NoHttpRequest == [event |-> "", sig |-> ""]
NoTask == [payment |-> "", retries |-> 0, user |-> NoUser, months |-> 0,
           sub |-> NoSubscription]
TaskMessages == PaymentIntents \X (0 .. max_retries)
NoResponse == [status |-> 0, text |-> "", detail |-> ""]
NoSweep == [count |-> 0, done |-> {}]
NoCleanup == [pc |-> "idle", cutoff_time |-> NoTime, count |-> 0]
NoCall == [op |-> "", user |-> NoUser, seconds |-> 0, date |-> NoTime,
           row |-> 0, watched_seconds |-> 0]
NoReturn == [op |-> "", user |-> NoUser, watched |-> 0, remaining |-> 0,
             has_sub |-> FALSE, allowed |-> FALSE, message |-> ""]

ErrBroker == "broker unavailable"
ErrIntegrity == "duplicate key value violates unique constraint"

VARIABLES
    now,           \* timezone.now(), in days
    brokerUp,      \* whether the web processes can publish to the broker
    outages,       \* number of broker outages so far
    webhookEvent,  \* WebhookEvent table: event id -> rows with that id
    payments,      \* Payment table, keyed by stripe_payment_intent_id
    subs,          \* Subscription table, keyed by user (one-to-one)
    taskQueue,     \* process_successful_payment messages in the broker
    notifications, \* send_subscription_confirmation_email messages sent
    triggered,     \* times process_successful_payment.delay succeeded, per payment
    dispatched,    \* times handler dispatch was entered, per event id
    pc,            \* position of each gunicorn worker in post()
    req,           \* the request a worker is serving and its locals
    request,       \* the HTTP request taken by the step just taken, if any
    response,      \* the HTTP response sent by the step just taken, if any
    deliveries,    \* number of webhook requests received so far
    redeliveries,  \* parity of the gateway's redeliveries of failed events
    tpc,           \* position of each Celery slot in the task
    task,          \* the task a Celery slot is running and its locals
    sweep,         \* rows the expiry sweep has selected and not yet saved
    swept,         \* the running expiry sweep's count and the rows it has saved
    created_at,    \* Payment.created_at, in hours, per payment
    cleanup,       \* position and count of cleanup_pending_payments
    limits,        \* DailyWatchLimit table: (user, date) -> rows
    calls,         \* number of update_watch_time calls so far
    qpc,           \* position of each viewer session in its quota call
    qloc,          \* the quota call a session is in and its locals
    ret,           \* what the quota call that returns in this step returns
    kills          \* number of gunicorn workers killed so far

vars ==
    <<now, brokerUp, outages, deliveries, webhookEvent, payments, subs,
      taskQueue, notifications, triggered, dispatched, pc, req, request, response,
      redeliveries, tpc, task, sweep, swept, created_at, cleanup, limits,
      calls, qpc, qloc, ret, kills>>

db == <<payments, subs>>
broker == <<taskQueue, notifications, triggered>>
business == <<payments, subs, taskQueue, notifications, triggered>>
env == <<now, brokerUp, outages>>
celery == <<tpc, task, sweep, swept>>
quota == <<limits, calls, qpc, qloc, ret>>
\* what the webhook, the activation task and the expiry sweep never touch
elsewhere == <<created_at, cleanup, quota, kills>>

Init ==
    /\ now = 0
    /\ brokerUp = TRUE
    /\ outages = 0
    /\ webhookEvent = [e \in EventIds |-> <<>>]
    /\ payments = [p \in PaymentIntents |-> NoPayment]
    /\ subs = [u \in Users |-> NoSubscription]
    /\ taskQueue = [m \in TaskMessages |-> 0]
    /\ notifications = 0
    /\ triggered = [p \in PaymentIntents |-> 0]
    /\ dispatched = [e \in EventIds |-> 0]
    /\ pc = [w \in Workers |-> "idle"]
    /\ req = [w \in Workers |-> NoRequest]
    /\ request = NoHttpRequest
    /\ response = NoResponse
    /\ deliveries = 0
    /\ redeliveries = 0
    /\ tpc = [c \in CeleryWorkers |-> "idle"]
    /\ task = [c \in CeleryWorkers |-> NoTask]
    /\ sweep = {}
    /\ swept = NoSweep
    /\ created_at = [p \in PaymentIntents |-> NoTime]
    /\ cleanup = NoCleanup
    /\ limits = [k \in Users \X Dates |-> <<>>]
    /\ calls = 0
    /\ qpc = [s \in Sessions |-> "idle"]
    /\ qloc = [s \in Sessions |-> NoCall]
    /\ ret = NoReturn
    /\ kills = 0

(* ----------------------- models: Payment ------------------------------- *)
\* as if every status counted as successful
is_successful_any(status) == TRUE

is_successful(status) == status = "succeeded"

Payment_mark_as_succeeded(p, t) ==
    [p EXCEPT !.status = "succeeded", !.completed_at = t]

\* as if a failed payment went back to pending
Payment_mark_as_failed_to_pending(p) == [p EXCEPT !.status = "pending"]

Payment_mark_as_failed(p) == [p EXCEPT !.status = "failed"]

(* ---------------------- models: WebhookEvent --------------------------- *)
\* processed_at is written and never read: the rows keep whether it is set
Stamp(t) == IF t = NoTime THEN NoTime ELSE 0

\* as if a row were born processed
NewWebhookEvent_processed ==
    [processed |-> TRUE, processed_at |-> NoTime, processing_error |-> ""]

NewWebhookEvent ==
    [processed |-> FALSE, processed_at |-> NoTime, processing_error |-> ""]

\* as if stripe_event_id had lost unique=True
UniqueViolation_dropped(tbl, e) == FALSE

\* stripe_event_id is unique=True: an INSERT of an id already present fails
UniqueViolation(tbl, e) == Len(tbl[e]) > 0

\* as if mark_as_processed did not save the row
WebhookEvent_mark_as_processed_not_saved(row, t) == row

WebhookEvent_mark_as_processed(row, t) ==
    [row EXCEPT !.processed = TRUE, !.processed_at = Stamp(t)]

\* as if mark_as_failed forgot to store the message
WebhookEvent_mark_as_failed_no_text(row, t, error_message) ==
    [row EXCEPT !.processed = TRUE, !.processed_at = Stamp(t)]

WebhookEvent_mark_as_failed(row, t, error_message) ==
    [row EXCEPT !.processed = TRUE, !.processed_at = Stamp(t),
                !.processing_error = error_message]

(* ------------------------- stripe_utils -------------------------------- *)
\* as if SignatureVerificationError were not turned into None
construct_webhook_event_unverified(e, sig_header) == e

\* stripe.Webhook.construct_event yields the event only for a payload whose
\* signature verifies; "" stands for None
construct_webhook_event(e, sig_header) == IF sig_header = "valid" THEN e ELSE ""

(* ------------------ StripeWebhookView.post ----------------------------- *)
\* a step that takes no request and sends no response
Quiet ==
    /\ request' = NoHttpRequest
    /\ response' = NoResponse
    /\ UNCHANGED redeliveries
    /\ UNCHANGED elsewhere

HttpResponse(text, detail, status) ==
    [status |-> status, text |-> text, detail |-> detail]

\* gunicorn hands a webhook request to an idle sync worker; the workers are
\* interchangeable, so the request goes to the first idle one
FirstIdle(w) == \A v \in Workers : pc[v] = "idle" => v >= w

\* the gateway keeps redelivering an event that was answered with a failure
IsRedelivery(e, sig) ==
    /\ sig = "valid"
    /\ \E i \in 1 .. Len(webhookEvent[e]) :
          webhookEvent[e][i].processing_error # ""

\* lines 97-116: signature check, construct_webhook_event and
\* WebhookEvent.objects.create.  What precedes the INSERT is local to the
\* request, so the request is taken and the INSERT done in one step.
post(w, e, sig) ==
    /\ pc[w] = "idle"
    /\ FirstIdle(w)
    /\ IF IsRedelivery(e, sig)
       THEN /\ redeliveries' = 1 - redeliveries
            /\ UNCHANGED deliveries
       ELSE /\ deliveries < MaxDeliveries
            /\ deliveries' = deliveries + 1
            /\ UNCHANGED redeliveries
    /\ request' = [event |-> e, sig |-> sig]
    /\ LET event == construct_webhook_event(e, sig)
       IN  IF sig = "missing"
           THEN /\ response' = HttpResponse("Missing signature", "", 400)
                /\ UNCHANGED <<webhookEvent, pc, req>>
           ELSE IF event = ""
           THEN /\ response' = HttpResponse("Invalid signature", "", 400)
                /\ UNCHANGED <<webhookEvent, pc, req>>
           ELSE IF UniqueViolation(webhookEvent, event)
           THEN \* IntegrityError outside the try block: Django answers 500
                /\ response' =
                      HttpResponse("Server Error (500)", ErrIntegrity, 500)
                /\ UNCHANGED <<webhookEvent, pc, req>>
           ELSE /\ webhookEvent' =
                      [webhookEvent EXCEPT
                         ![event] = Append(@, NewWebhookEvent)]
                /\ req' = [req EXCEPT ![w] =
                             [NoRequest EXCEPT
                                !.event = event,
                                !.handle = Len(webhookEvent[event]) + 1]]
                /\ pc' = [pc EXCEPT ![w] = "dispatch"]
                /\ response' = NoResponse
    /\ UNCHANGED <<env, business, dispatched, celery, elsewhere>>

EnterDispatch(w) ==
    dispatched' = [dispatched EXCEPT ![req[w].event] = @ + 1]

\* lines 139-168: metadata, then Payment.objects.get_or_create
_handle_checkout_session_completed(w) ==
    /\ pc[w] = "dispatch"
    /\ Event(req[w].event).type = "checkout.session.completed"
    /\ EnterDispatch(w)
    /\ LET session == Event(req[w].event)
           pi == session.payment_intent
           status == IF session.payment_status = "paid"
                     THEN "succeeded" ELSE "processing"
       IN  IF session.user_id = NoUser
           THEN /\ pc' = [pc EXCEPT ![w] = "mark"]
                /\ UNCHANGED <<payments, created_at, req>>
           ELSE IF ~payments[pi].exists
           THEN /\ payments' =
                      [payments EXCEPT ![pi] =
                         [exists |-> TRUE, status |-> status,
                          completed_at |-> NoTime, user |-> session.user_id,
                          subscription_months |-> session.subscription_months]]
                /\ created_at' = [created_at EXCEPT ![pi] = HoursPerDay * now]
                /\ req' = [req EXCEPT ![w].status = status]
                /\ pc' = [pc EXCEPT ![w] =
                            IF session.payment_status = "paid"
                               /\ is_successful(status)
                            THEN "delay" ELSE "mark"]
           ELSE /\ req' = [req EXCEPT ![w].status = payments[pi].status]
                /\ pc' = [pc EXCEPT ![w] = "cs_update"]
                /\ UNCHANGED <<payments, created_at>>
    /\ UNCHANGED <<env, deliveries, webhookEvent, subs, broker,
                   celery>>
    /\ request' = NoHttpRequest
    /\ response' = NoResponse
    /\ UNCHANGED <<redeliveries, cleanup, quota, kills>>

\* lines 170-180: the record existed
checkout_session_update(w) ==
    /\ pc[w] = "cs_update"
    /\ LET session == Event(req[w].event)
           pi == session.payment_intent
       IN  IF session.payment_status = "paid" /\ req[w].status # "succeeded"
           THEN /\ payments' = [payments EXCEPT
                                  ![pi] = Payment_mark_as_succeeded(@, now)]
                /\ req' = [req EXCEPT ![w].status = "succeeded"]
                /\ pc' = [pc EXCEPT ![w] = "delay"]
           ELSE /\ payments' = [payments EXCEPT ![pi].status = "processing"]
                /\ req' = [req EXCEPT ![w].status = "processing"]
                /\ pc' = [pc EXCEPT ![w] = "mark"]
    /\ UNCHANGED <<env, deliveries, webhookEvent, subs, broker, dispatched,
                   celery>>
    /\ Quiet

\* lines 184-189 and 197-199: Payment.objects.get
_handle_payment_intent_succeeded(w) ==
    /\ pc[w] = "dispatch"
    /\ Event(req[w].event).type = "payment_intent.succeeded"
    /\ EnterDispatch(w)
    /\ LET pi == Event(req[w].event).payment_intent
       IN  IF payments[pi].exists
           THEN /\ req' = [req EXCEPT ![w].status = payments[pi].status]
                /\ pc' = [pc EXCEPT ![w] = "pi_save"]
           ELSE \* Payment.DoesNotExist: pass
                /\ pc' = [pc EXCEPT ![w] = "mark"]
                /\ UNCHANGED req
    /\ UNCHANGED <<env, deliveries, webhookEvent, business, celery>>
    /\ Quiet

\* line 192: payment.mark_as_succeeded()
payment_intent_succeeded_save(w) ==
    /\ pc[w] = "pi_save"
    /\ LET pi == Event(req[w].event).payment_intent
       IN  payments' = [payments EXCEPT
                          ![pi] = Payment_mark_as_succeeded(@, now)]
    /\ req' = [req EXCEPT ![w].status = "succeeded"]
    /\ pc' = [pc EXCEPT ![w] = "delay"]
    /\ UNCHANGED <<env, deliveries, webhookEvent, subs, broker, dispatched,
                   celery>>
    /\ Quiet

\* lines 203-208 and 213-214: Payment.objects.get
_handle_payment_intent_failed(w) ==
    /\ pc[w] = "dispatch"
    /\ Event(req[w].event).type = "payment_intent.payment_failed"
    /\ EnterDispatch(w)
    /\ LET pi == Event(req[w].event).payment_intent
       IN  IF payments[pi].exists
           THEN /\ req' = [req EXCEPT ![w].status = payments[pi].status]
                /\ pc' = [pc EXCEPT ![w] = "pf_save"]
           ELSE /\ pc' = [pc EXCEPT ![w] = "mark"]
                /\ UNCHANGED req
    /\ UNCHANGED <<env, deliveries, webhookEvent, business, celery>>
    /\ Quiet

\* line 211: payment.mark_as_failed()
payment_intent_failed_save(w) ==
    /\ pc[w] = "pf_save"
    /\ LET pi == Event(req[w].event).payment_intent
       IN  payments' = [payments EXCEPT ![pi] = Payment_mark_as_failed(@)]
    /\ req' = [req EXCEPT ![w].status = "failed"]
    /\ pc' = [pc EXCEPT ![w] = "mark"]
    /\ UNCHANGED <<env, deliveries, webhookEvent, subs, broker, dispatched,
                   celery>>
    /\ Quiet

\* lines 218-224 and 230-231: Payment.objects.get
_handle_charge_refunded(w) ==
    /\ pc[w] = "dispatch"
    /\ Event(req[w].event).type = "charge.refunded"
    /\ EnterDispatch(w)
    /\ LET pi == Event(req[w].event).payment_intent
       IN  IF payments[pi].exists
           THEN /\ req' = [req EXCEPT ![w].status = payments[pi].status]
                /\ pc' = [pc EXCEPT ![w] = "cr_save"]
           ELSE /\ pc' = [pc EXCEPT ![w] = "mark"]
                /\ UNCHANGED req
    /\ UNCHANGED <<env, deliveries, webhookEvent, business, celery>>
    /\ Quiet

\* as if a succeeded Payment could not be refunded
Payment_refund_unless_succeeded(p) ==
    IF p.status = "succeeded" THEN p ELSE [p EXCEPT !.status = "refunded"]

\* lines 227-228: payment.status = 'refunded' and
\* save(update_fields=['status', 'updated_at'])
Payment_refund(p) == [p EXCEPT !.status = "refunded"]

\* lines 227-228: status = 'refunded', save
charge_refunded_save(w) ==
    /\ pc[w] = "cr_save"
    /\ LET pi == Event(req[w].event).payment_intent
       IN  payments' = [payments EXCEPT ![pi] = Payment_refund(@)]
    /\ req' = [req EXCEPT ![w].status = "refunded"]
    /\ pc' = [pc EXCEPT ![w] = "mark"]
    /\ UNCHANGED <<env, deliveries, webhookEvent, subs, broker, dispatched,
                   celery>>
    /\ Quiet

HandledTypes ==
    {"checkout.session.completed", "payment_intent.succeeded",
     "payment_intent.payment_failed", "charge.refunded"}

\* no branch of the if/elif chain matches
unhandled_event_type(w) ==
    /\ pc[w] = "dispatch"
    /\ Event(req[w].event).type \notin HandledTypes
    /\ EnterDispatch(w)
    /\ pc' = [pc EXCEPT ![w] = "mark"]
    /\ UNCHANGED <<env, deliveries, webhookEvent, business, req,
                   celery>>
    /\ Quiet

\* process_successful_payment.delay(payment.id) in the two success handlers
delay_process_successful_payment(w) ==
    /\ pc[w] = "delay"
    /\ LET pi == Event(req[w].event).payment_intent
       IN  IF brokerUp
           THEN /\ taskQueue' = [taskQueue EXCEPT ![<<pi, 0>>] = @ + 1]
                /\ triggered' = [triggered EXCEPT ![pi] = @ + 1]
                /\ pc' = [pc EXCEPT ![w] = "mark"]
                /\ UNCHANGED req
           ELSE /\ req' = [req EXCEPT ![w].err = ErrBroker]
                /\ pc' = [pc EXCEPT ![w] = "fail"]
                /\ UNCHANGED <<taskQueue, triggered>>
    /\ UNCHANGED <<env, deliveries, webhookEvent, db, notifications,
                   dispatched, celery>>
    /\ Quiet

\* webhook_event.mark_as_processed() and the 200 response
mark_as_processed(w) ==
    /\ pc[w] = "mark"
    /\ webhookEvent' =
          [webhookEvent EXCEPT ![req[w].event][req[w].handle] =
             WebhookEvent_mark_as_processed(@, now)]
    /\ response' = HttpResponse("Webhook received", "", 200)
    /\ request' = NoHttpRequest
    /\ UNCHANGED redeliveries
    /\ pc' = [pc EXCEPT ![w] = "idle"]
    /\ req' = [req EXCEPT ![w] = NoRequest]
    /\ UNCHANGED <<env, deliveries, business, dispatched, celery, elsewhere>>

\* the except branch: webhook_event.mark_as_failed(str(e)) and the 500
mark_as_failed(w) ==
    /\ pc[w] = "fail"
    /\ webhookEvent' =
          [webhookEvent EXCEPT ![req[w].event][req[w].handle] =
             WebhookEvent_mark_as_failed(@, now, req[w].err)]
    /\ response' =
          HttpResponse("Webhook processing failed: ", req[w].err, 500)
    /\ request' = NoHttpRequest
    /\ UNCHANGED redeliveries
    /\ pc' = [pc EXCEPT ![w] = "idle"]
    /\ req' = [req EXCEPT ![w] = NoRequest]
    /\ UNCHANGED <<env, deliveries, business, dispatched, celery, elsewhere>>

(* ----------------------- models: Subscription -------------------------- *)
is_expired(sub, t) == t > sub.end_date

\* as if a month were counted as 31 days
timedelta_days_of_31(months) == 31 * months

timedelta_days(months) == DaysPerMonth * months

(* ------------- tasks.process_successful_payment ------------------------ *)
web == <<deliveries, webhookEvent, dispatched, pc, req>>

\* a Celery slot takes the message; lines 21-27
process_successful_payment(c, m) ==
    /\ tpc[c] = "idle"
    /\ taskQueue[m] > 0
    /\ taskQueue' = [taskQueue EXCEPT ![m] = @ - 1]
    /\ LET payment == payments[m[1]]
       IN  IF ~payment.exists \/ ~is_successful(payment.status)
           THEN UNCHANGED <<tpc, task>>
           ELSE /\ tpc' = [tpc EXCEPT ![c] = "get_or_create"]
                /\ task' = [task EXCEPT ![c] =
                              [NoTask EXCEPT
                                 !.payment = m[1], !.retries = m[2],
                                 !.user = payment.user,
                                 !.months = payment.subscription_months]]
    /\ UNCHANGED <<env, web, db, notifications, triggered, sweep, swept>>
    /\ Quiet

\* lines 30-37: Subscription.objects.get_or_create
subscription_get_or_create(c) ==
    /\ tpc[c] = "get_or_create"
    /\ LET user == task[c].user
       IN  IF ~subs[user].exists
           THEN /\ subs' = [subs EXCEPT ![user] =
                              [exists |-> TRUE, start_date |-> now,
                               end_date |-> now + timedelta_days(task[c].months),
                               is_active |-> TRUE]]
                /\ tpc' = [tpc EXCEPT ![c] = "notify"]
                /\ UNCHANGED task
           ELSE /\ task' = [task EXCEPT ![c].sub = subs[user]]
                /\ tpc' = [tpc EXCEPT ![c] = "save"]
                /\ UNCHANGED subs
    /\ UNCHANGED <<env, web, payments, broker, sweep, swept>>
    /\ Quiet

\* as if the reactivation branch were missing
ExtendOrReactivate_always_extend(subscription, months, t) ==
    [subscription EXCEPT
       !.end_date = subscription.end_date + timedelta_days(months)]

\* lines 39-48 on the Subscription object the task holds
ExtendOrReactivate(subscription, months, t) ==
    IF subscription.is_active /\ ~is_expired(subscription, t)
    THEN [subscription EXCEPT
            !.end_date = subscription.end_date + timedelta_days(months)]
    ELSE [subscription EXCEPT
            !.start_date = t,
            !.end_date = t + timedelta_days(months),
            !.is_active = TRUE]

\* line 50: subscription.save(update_fields=[start_date, end_date, is_active])
subscription_save(c) ==
    /\ tpc[c] = "save"
    /\ subs' = [subs EXCEPT ![task[c].user] =
                  ExtendOrReactivate(task[c].sub, task[c].months, now)]
    /\ tpc' = [tpc EXCEPT ![c] = "notify"]
    /\ UNCHANGED <<env, web, payments, broker, task, sweep, swept>>
    /\ Quiet

\* line 53: send_subscription_confirmation_email.delay
delay_confirmation_email(c) ==
    /\ tpc[c] = "notify"
    /\ IF brokerUp
       THEN /\ notifications' = notifications + 1
            /\ tpc' = [tpc EXCEPT ![c] = "idle"]
            /\ task' = [task EXCEPT ![c] = NoTask]
       ELSE /\ tpc' = [tpc EXCEPT ![c] = "retry"]
            /\ UNCHANGED <<notifications, task>>
    /\ UNCHANGED <<env, web, db, taskQueue, triggered, sweep, swept>>
    /\ Quiet

\* lines 59-61: self.retry(exc=exc, countdown=60) republishes the task
retry(c) ==
    /\ tpc[c] = "retry"
    /\ IF task[c].retries < max_retries /\ brokerUp
       THEN taskQueue' = [taskQueue EXCEPT
                            ![<<task[c].payment, task[c].retries + 1>>] = @ + 1]
       ELSE UNCHANGED taskQueue
    /\ tpc' = [tpc EXCEPT ![c] = "idle"]
    /\ task' = [task EXCEPT ![c] = NoTask]
    /\ UNCHANGED <<env, web, db, notifications, triggered, sweep, swept>>
    /\ Quiet

(* ------------- subscribe.tasks.deactivate_expired_subscriptions -------- *)
\* as if the filter were end_date__lte=now
expired_subscriptions_lte(tbl, t) ==
    {u \in DOMAIN tbl : /\ tbl[u].exists
                         /\ tbl[u].is_active
                         /\ tbl[u].end_date <= t}

\* the rows of Subscription.objects.filter(is_active=True, end_date__lt=now)
expired_subscriptions(tbl, t) ==
    {u \in DOMAIN tbl : /\ tbl[u].exists
                         /\ tbl[u].is_active
                         /\ tbl[u].end_date < t}

\* lines 10-17: the filter query and its count
deactivate_expired_subscriptions ==
    /\ sweep = {}
    /\ sweep' = expired_subscriptions(subs, now)
    /\ sweep' # {}
    /\ swept' = [count |-> Cardinality(sweep'), done |-> {}]
    /\ UNCHANGED <<env, web, business, tpc, task>>
    /\ Quiet

\* lines 19-20 with Subscription.deactivate: saves is_active only; the task
\* returns after the last row
deactivate(u) ==
    /\ u \in sweep
    /\ subs' = [subs EXCEPT ![u].is_active = FALSE]
    /\ sweep' = sweep \ {u}
    /\ swept' = IF sweep' = {} THEN NoSweep
                ELSE [swept EXCEPT !.done = @ \cup {u}]
    /\ UNCHANGED <<env, web, payments, broker, tpc, task>>
    /\ Quiet

(* --------------------------- environment ------------------------------- *)
Tick ==
    /\ now + TickDays <= MaxNow
    /\ now' = now + TickDays
    /\ UNCHANGED <<brokerUp, outages, web, business, celery>>
    /\ Quiet

BrokerFail ==
    /\ brokerUp
    /\ outages < MaxOutages
    /\ brokerUp' = FALSE
    /\ outages' = outages + 1
    /\ UNCHANGED <<now, web, business, celery>>
    /\ Quiet

BrokerRestore ==
    /\ ~brokerUp
    /\ brokerUp' = TRUE
    /\ UNCHANGED <<now, outages, web, business, celery>>
    /\ Quiet

(* ------------------ tasks.cleanup_pending_payments --------------------- *)
\* as if the filter had no status='pending'
old_pending_payments_any_status(tbl, created, cutoff_time) ==
    {p \in DOMAIN tbl : tbl[p].exists /\ created[p] < cutoff_time}

\* Payment.objects.filter(status='pending', created_at__lt=cutoff_time)
old_pending_payments(tbl, created, cutoff_time) ==
    {p \in DOMAIN tbl : /\ tbl[p].exists
                         /\ tbl[p].status = "pending"
                         /\ created[p] < cutoff_time}

\* what the cleanup never touches
besides_payments ==
    <<env, web, subs, broker, celery, quota, kills, request, response,
      redeliveries>>

\* lines 106-113: cutoff_time = now - 24 hours, the filter and its count()
cleanup_pending_payments ==
    /\ cleanup.pc = "idle"
    /\ LET cutoff_time == HoursPerDay * now - 24
       IN  cleanup' =
             [pc |-> "delete", cutoff_time |-> cutoff_time,
              count |-> Cardinality(
                 old_pending_payments(payments, created_at, cutoff_time))]
    /\ UNCHANGED <<besides_payments, payments, created_at>>

\* lines 114-116: old_pending_payments.delete() and the returned count
cleanup_delete ==
    /\ cleanup.pc = "delete"
    /\ LET old == old_pending_payments(payments, created_at,
                                       cleanup.cutoff_time)
       IN  /\ payments' = [p \in DOMAIN payments |->
                             IF p \in old THEN NoPayment ELSE payments[p]]
           /\ created_at' = [p \in DOMAIN created_at |->
                               IF p \in old THEN NoTime ELSE created_at[p]]
    /\ cleanup' = [cleanup EXCEPT !.pc = "idle"]
    /\ UNCHANGED besides_payments

(* ----------------------- models: DailyWatchLimit ----------------------- *)
Max(a, b) == IF a >= b THEN a ELSE b

\* as if the remainder were not clamped at zero
get_remaining_seconds_unclamped(watched_seconds) ==
    DailyLimitSeconds - watched_seconds

get_remaining_seconds(watched_seconds) ==
    Max(0, DailyLimitSeconds - watched_seconds)

is_limit_reached(watched_seconds) == watched_seconds >= DailyLimitSeconds

(* ------------------------- subscribe.utils ----------------------------- *)
\* the seconds a player reports in one update_watch_time call
WatchSeconds == {1, 3599}

is_authenticated(user) == user # AnonymousUser

\* as if nobody ever had a subscription
has_active_subscription_never(user) == FALSE

\* as if the lookup had no is_active=True
has_active_subscription_any_flag(user) ==
    /\ is_authenticated(user)
    /\ user \in DOMAIN subs
    /\ subs[user].exists
    /\ ~is_expired(subs[user], now)

\* lines 6-14: Subscription.objects.get(user=user, is_active=True)
has_active_subscription(user) ==
    /\ is_authenticated(user)
    /\ user \in DOMAIN subs
    /\ subs[user].exists
    /\ subs[user].is_active
    /\ ~is_expired(subs[user], now)

\* what the payment side of the system holds: quota calls leave it alone
reconciliation ==
    <<env, web, business, celery, request, response, redeliveries,
      created_at, cleanup, kills>>

\* the tuple get_daily_watch_limit returns from a row
LimitTuple(op, user, watched_seconds) ==
    [NoReturn EXCEPT
       !.op = op,
       !.user = user,
       !.watched = watched_seconds,
       !.remaining = get_remaining_seconds(watched_seconds)]

\* lines 38-46 of can_watch_video on the tuple of get_daily_watch_limit
CanWatch(t) ==
    IF t.has_sub
    THEN [t EXCEPT !.op = "can_watch_video", !.allowed = TRUE]
    ELSE IF t.remaining <= 0
    THEN [t EXCEPT
            !.op = "can_watch_video", !.allowed = FALSE,
            !.message =
               "Daily watch limit reached. Subscribe to watch unlimited!"]
    ELSE [t EXCEPT
            !.op = "can_watch_video", !.allowed = TRUE,
            !.message = "You have minutes remaining today"]

Subscriber == [NoReturn EXCEPT !.remaining = Unlimited, !.has_sub = TRUE]

\* lines 17-23: get_daily_watch_limit up to the get_or_create
get_daily_watch_limit(s, user) ==
    /\ qpc[s] = "idle"
    /\ is_authenticated(user)
    /\ IF has_active_subscription(user)
       THEN /\ ret' = [Subscriber EXCEPT
                            !.op = "get_daily_watch_limit", !.user = user]
            /\ UNCHANGED <<qpc, qloc>>
       ELSE /\ qpc' = [qpc EXCEPT ![s] = "get"]
            /\ qloc' = [qloc EXCEPT
                          ![s] = [NoCall EXCEPT
                                    !.op = "get_daily_watch_limit",
                                    !.user = user, !.date = now]]
            /\ ret' = NoReturn
    /\ UNCHANGED <<reconciliation, limits, calls>>

\* lines 34-38: can_watch_video up to the get_or_create of
\* get_daily_watch_limit
can_watch_video(s, user) ==
    /\ qpc[s] = "idle"
    /\ IF ~is_authenticated(user)
       THEN /\ ret' = [NoReturn EXCEPT
                            !.op = "can_watch_video", !.user = user,
                            !.message = "Please login to watch movies"]
            /\ UNCHANGED <<qpc, qloc>>
       ELSE IF has_active_subscription(user)
       THEN /\ ret' = CanWatch([Subscriber EXCEPT !.user = user])
            /\ UNCHANGED <<qpc, qloc>>
       ELSE /\ qpc' = [qpc EXCEPT ![s] = "get"]
            /\ qloc' = [qloc EXCEPT
                          ![s] = [NoCall EXCEPT
                                    !.op = "can_watch_video",
                                    !.user = user, !.date = now]]
            /\ ret' = NoReturn
    /\ UNCHANGED <<reconciliation, limits, calls>>

\* lines 49-53: update_watch_time up to the get_or_create
update_watch_time(s, user, seconds) ==
    /\ qpc[s] = "idle"
    /\ is_authenticated(user)
    /\ calls < MaxCalls
    /\ calls' = calls + 1
    /\ IF has_active_subscription(user)
       THEN /\ ret' = [NoReturn EXCEPT
                            !.op = "update_watch_time", !.user = user]
            /\ UNCHANGED <<qpc, qloc>>
       ELSE /\ qpc' = [qpc EXCEPT ![s] = "get"]
            /\ qloc' = [qloc EXCEPT
                          ![s] = [NoCall EXCEPT
                                    !.op = "update_watch_time",
                                    !.user = user, !.seconds = seconds,
                                    !.date = now]]
            /\ ret' = NoReturn
    /\ UNCHANGED <<reconciliation, limits>>

\* the call goes on with the row it holds: update_watch_time saves it, the
\* other two return from it
WithRow(s, row, watched_seconds) ==
    IF qloc[s].op = "update_watch_time"
    THEN /\ qpc' = [qpc EXCEPT ![s] = "save"]
         /\ qloc' = [qloc EXCEPT ![s].row = row,
                                 ![s].watched_seconds = watched_seconds]
         /\ ret' = NoReturn
    ELSE /\ qpc' = [qpc EXCEPT ![s] = "idle"]
         /\ qloc' = [qloc EXCEPT ![s] = NoCall]
         /\ ret' = IF qloc[s].op = "can_watch_video"
                THEN CanWatch(LimitTuple("", qloc[s].user, watched_seconds))
                ELSE LimitTuple("get_daily_watch_limit", qloc[s].user,
                                watched_seconds)

\* as if unique_together = ('user', 'date') were missing
UniqueTogether_dropped(tbl, key) == FALSE

\* Meta.unique_together = ('user', 'date')
UniqueTogether(tbl, key) == Len(tbl[key]) > 0

\* DailyWatchLimit.objects.get_or_create: the SELECT
limit_get(s) ==
    /\ qpc[s] = "get"
    /\ LET key == <<qloc[s].user, qloc[s].date>>
       IN  IF Len(limits[key]) > 0
           THEN WithRow(s, 1, limits[key][1])
           ELSE /\ qpc' = [qpc EXCEPT ![s] = "create"]
                /\ ret' = NoReturn
                /\ UNCHANGED qloc
    /\ UNCHANGED <<reconciliation, limits, calls>>

\* DailyWatchLimit.objects.get_or_create: the INSERT with
\* watched_seconds = 0, and the second SELECT after an IntegrityError
limit_create(s) ==
    /\ qpc[s] = "create"
    /\ LET key == <<qloc[s].user, qloc[s].date>>
       IN  IF UniqueTogether(limits, key)
           THEN /\ WithRow(s, 1, limits[key][1])
                /\ UNCHANGED limits
           ELSE /\ limits' = [limits EXCEPT ![key] = Append(@, 0)]
                /\ WithRow(s, Len(limits[key]) + 1, 0)
    /\ UNCHANGED <<reconciliation, calls>>

\* as if the sum were cut at the daily limit
watched_seconds_iadd_clamped(watched_seconds, seconds) ==
    IF watched_seconds + seconds > DailyLimitSeconds
    THEN DailyLimitSeconds
    ELSE watched_seconds + seconds

\* models.py line 129: self.watched_seconds += seconds
watched_seconds_iadd(watched_seconds, seconds) == watched_seconds + seconds

\* models.py add_watch_time: watched_seconds += seconds on the object read,
\* save(update_fields=['watched_seconds', 'updated_at'])
add_watch_time(s) ==
    /\ qpc[s] = "save"
    /\ LET key == <<qloc[s].user, qloc[s].date>>
       IN  limits' = [limits EXCEPT
                        ![key][qloc[s].row] =
                           watched_seconds_iadd(qloc[s].watched_seconds,
                                                qloc[s].seconds)]
    /\ qpc' = [qpc EXCEPT ![s] = "idle"]
    /\ qloc' = [qloc EXCEPT ![s] = NoCall]
    /\ ret' = [NoReturn EXCEPT
                 !.op = "update_watch_time", !.user = qloc[s].user]
    /\ UNCHANGED <<reconciliation, calls>>

(* ------------------------- specification ------------------------------- *)
WorkerStep(w) ==
    \/ \E r \in Requests : post(w, r[1], r[2])
    \/ _handle_checkout_session_completed(w)
    \/ checkout_session_update(w)
    \/ _handle_payment_intent_succeeded(w)
    \/ payment_intent_succeeded_save(w)
    \/ _handle_payment_intent_failed(w)
    \/ payment_intent_failed_save(w)
    \/ _handle_charge_refunded(w)
    \/ charge_refunded_save(w)
    \/ unhandled_event_type(w)
    \/ delay_process_successful_payment(w)
    \/ mark_as_processed(w)
    \/ mark_as_failed(w)

CeleryStep(c) ==
    \/ \E m \in TaskMessages : process_successful_payment(c, m)
    \/ subscription_get_or_create(c)
    \/ subscription_save(c)
    \/ delay_confirmation_email(c)
    \/ retry(c)

Next ==
    \/ \E w \in Workers : WorkerStep(w)
    \/ \E c \in CeleryWorkers : CeleryStep(c)
    \/ deactivate_expired_subscriptions
    \/ \E u \in Users : deactivate(u)
    \/ Tick
    \/ BrokerFail
    \/ BrokerRestore

Spec == Init /\ [][Next]_vars

(* The webhook with workers that die in the middle of a request.           *)
\* gunicorn kills a sync worker that is silent for `timeout` seconds (or the
\* process dies): the request gets no response, and what its statements
\* have committed stays, for no transaction spans the request
kill_worker(w) ==
    /\ pc[w] # "idle"
    /\ kills < MaxKills
    /\ kills' = kills + 1
    /\ pc' = [pc EXCEPT ![w] = "idle"]
    /\ req' = [req EXCEPT ![w] = NoRequest]
    /\ request' = NoHttpRequest
    /\ response' = NoResponse
    /\ UNCHANGED <<env, deliveries, webhookEvent, business, dispatched,
                   celery, redeliveries, created_at, cleanup, quota>>

\* the clock stands still: no step of a request reads it but to stamp
KillNext ==
    \/ \E w \in Workers : WorkerStep(w)
    \/ \E w \in Workers : kill_worker(w)
    \/ \E c \in CeleryWorkers : CeleryStep(c)
    \/ BrokerFail
    \/ BrokerRestore

KillSpec == Init /\ [][KillNext]_vars

(* The quota ledger: viewer sessions call the gate while the days pass.    *)
\* everything at rest, but for the clock and the tables
AtRest ==
    /\ brokerUp = TRUE
    /\ outages = 0
    /\ webhookEvent = [e \in EventIds |-> <<>>]
    /\ taskQueue = [m \in TaskMessages |-> 0]
    /\ notifications = 0
    /\ triggered = [p \in PaymentIntents |-> 0]
    /\ dispatched = [e \in EventIds |-> 0]
    /\ pc = [w \in Workers |-> "idle"]
    /\ req = [w \in Workers |-> NoRequest]
    /\ request = NoHttpRequest
    /\ response = NoResponse
    /\ deliveries = 0
    /\ redeliveries = 0
    /\ tpc = [c \in CeleryWorkers |-> "idle"]
    /\ task = [c \in CeleryWorkers |-> NoTask]
    /\ sweep = {}
    /\ swept = NoSweep
    /\ cleanup = NoCleanup
    /\ calls = 0
    /\ qpc = [s \in Sessions |-> "idle"]
    /\ qloc = [s \in Sessions |-> NoCall]
    /\ ret = NoReturn
    /\ kills = 0

\* the Subscription a viewer may hold when the first day begins
ViewerSubscriptions ==
    {NoSubscription} \cup
    [exists : {TRUE}, start_date : {0}, end_date : {0, TickDays},
     is_active : BOOLEAN]

QuotaInit ==
    /\ AtRest
    /\ now = 0
    /\ payments = [p \in PaymentIntents |-> NoPayment]
    /\ created_at = [p \in PaymentIntents |-> NoTime]
    /\ limits = [k \in Users \X Dates |-> <<>>]
    /\ subs \in [Users -> ViewerSubscriptions]

QuotaStep(s) ==
    \/ \E user \in Users : get_daily_watch_limit(s, user)
    \/ \E user \in Users \cup {AnonymousUser} : can_watch_video(s, user)
    \/ \E user \in Users : \E seconds \in WatchSeconds :
          update_watch_time(s, user, seconds)
    \/ limit_get(s)
    \/ limit_create(s)
    \/ add_watch_time(s)

QuotaNext ==
    \/ \E s \in Sessions : QuotaStep(s)
    \/ Tick

QuotaSpec == QuotaInit /\ [][QuotaNext]_vars

(* The stale-pending sweep over Payment rows of every status and age.      *)
StalePayments == {"pi_1", "pi_2"}
Statuses ==
    {"pending", "processing", "succeeded", "failed", "canceled", "refunded"}
\* hours before the first sweep at which a row was created
Ages == {23, 24, 25}

CleanupInit ==
    /\ AtRest
    /\ now = TickDays
    /\ subs = [u \in Users |-> NoSubscription]
    /\ limits = [k \in Users \X Dates |-> <<>>]
    /\ \E present \in SUBSET StalePayments :
       \E status \in [present -> Statuses] :
       \E age \in [present -> Ages] :
          /\ payments =
                [p \in StalePayments |->
                   IF p \in present
                   THEN [exists |-> TRUE, status |-> status[p],
                         completed_at |-> NoTime, user |-> "u1",
                         subscription_months |-> 1]
                   ELSE NoPayment]
          /\ created_at =
                [p \in StalePayments |->
                   IF p \in present
                   THEN HoursPerDay * TickDays - age[p] ELSE NoTime]

CleanupNext ==
    \/ cleanup_pending_payments
    \/ cleanup_delete
    \/ Tick

CleanupSpec == CleanupInit /\ [][CleanupNext]_vars

(* The expiry sweep over Subscriptions on either side of their end_date.   *)
Subscribers == {"u1", "u2", "u3"}
SweptSubscriptions ==
    {NoSubscription} \cup
    [exists : {TRUE}, start_date : {0},
     end_date : {TickDays - 1, TickDays, TickDays + 1},
     is_active : BOOLEAN]

SweepInit ==
    /\ AtRest
    /\ now = TickDays
    /\ payments = [p \in PaymentIntents |-> NoPayment]
    /\ created_at = [p \in PaymentIntents |-> NoTime]
    /\ limits = [k \in Users \X Dates |-> <<>>]
    /\ subs \in [Subscribers -> SweptSubscriptions]

SweepNext ==
    \/ deactivate_expired_subscriptions
    \/ \E u \in Subscribers : deactivate(u)
    \/ Tick

SweepSpec == SweepInit /\ [][SweepNext]_vars

\* the gateway's redelivery of failed events, the running requests and tasks
\* and the repair of the broker all make progress
WorkerProgress(w) ==
    \/ _handle_checkout_session_completed(w)
    \/ checkout_session_update(w)
    \/ _handle_payment_intent_succeeded(w)
    \/ payment_intent_succeeded_save(w)
    \/ _handle_payment_intent_failed(w)
    \/ payment_intent_failed_save(w)
    \/ _handle_charge_refunded(w)
    \/ charge_refunded_save(w)
    \/ unhandled_event_type(w)
    \/ delay_process_successful_payment(w)
    \/ mark_as_processed(w)
    \/ mark_as_failed(w)

Redeliver(e) ==
    /\ IsRedelivery(e, "valid")
    /\ \E w \in Workers : post(w, e, "valid")

LiveSpec ==
    /\ Init /\ [][Next]_vars
    /\ \A w \in Workers : WF_vars(WorkerProgress(w))
    /\ \A c \in CeleryWorkers : WF_vars(CeleryStep(c))
    /\ WF_vars(BrokerRestore)
    /\ \A e \in EventIds : SF_vars(Redeliver(e))

(* Two payments of one subscriber, their tasks on two Celery slots.       *)
StackPayments == {"pi_1", "pi_2"}
\* worker processes of one Celery worker (concurrency of the prefork pool)
StackSlots == {"c1", "c2"}
\* subscription_months of the two payments
StackMonths == [pi_1 |-> 1, pi_2 |-> 2]
StackMessages == StackPayments \X (0 .. max_retries)

\* u1 holds an active Subscription that ends on day TickDays; both payments
\* are succeeded and process_successful_payment was enqueued once for each
StackInit ==
    /\ now = 0
    /\ brokerUp = TRUE
    /\ outages = 0
    /\ webhookEvent = [e \in EventIds |-> <<>>]
    /\ payments =
          [p \in StackPayments |->
             [exists |-> TRUE, status |-> "succeeded", completed_at |-> 0,
              user |-> "u1", subscription_months |-> StackMonths[p]]]
    /\ subs = [u \in Users |->
                 [exists |-> TRUE, start_date |-> 0, end_date |-> TickDays,
                  is_active |-> TRUE]]
    /\ taskQueue = [m \in StackMessages |-> IF m[2] = 0 THEN 1 ELSE 0]
    /\ notifications = 0
    /\ triggered = [p \in StackPayments |-> 1]
    /\ dispatched = [e \in EventIds |-> 0]
    /\ pc = [w \in Workers |-> "idle"]
    /\ req = [w \in Workers |-> NoRequest]
    /\ request = NoHttpRequest
    /\ response = NoResponse
    /\ deliveries = 0
    /\ redeliveries = 0
    /\ tpc = [c \in StackSlots |-> "idle"]
    /\ task = [c \in StackSlots |-> NoTask]
    /\ sweep = {}
    /\ swept = NoSweep
    /\ created_at = [p \in StackPayments |-> 0]
    /\ cleanup = NoCleanup
    /\ limits = [k \in Users \X Dates |-> <<>>]
    /\ calls = 0
    /\ qpc = [s \in Sessions |-> "idle"]
    /\ qloc = [s \in Sessions |-> NoCall]
    /\ ret = NoReturn
    /\ kills = 0

StackStep(c) ==
    \/ \E m \in StackMessages : process_successful_payment(c, m)
    \/ subscription_get_or_create(c)
    \/ subscription_save(c)
    \/ delay_confirmation_email(c)
    \/ retry(c)

StackNext ==
    \/ \E c \in StackSlots : StackStep(c)
    \/ deactivate_expired_subscriptions
    \/ \E u \in Users : deactivate(u)
    \/ Tick
    \/ BrokerFail
    \/ BrokerRestore

StackSpec == StackInit /\ [][StackNext]_vars

(* The webhook and the stale-pending sweep on one Payment table.          *)
\* the activation task and the expiry sweep write no Payment: they rest
ReconcileNext ==
    \/ \E w \in Workers : WorkerStep(w)
    \/ cleanup_pending_payments
    \/ cleanup_delete
    \/ Tick
    \/ BrokerFail
    \/ BrokerRestore

ReconcileSpec == Init /\ [][ReconcileNext]_vars

(* ============================== claims ================================= *)
Rows(e) == {webhookEvent[e][i] : i \in 1 .. Len(webhookEvent[e])}
ProcessedOK(e) ==
    \E row \in Rows(e) : row.processed /\ row.processing_error = ""
MarkedFailed(e) == \E row \in Rows(e) : row.processing_error # ""

StepOf(w) == pc'[w] # pc[w]

\* the step takes a verified request whose event id is already in the log
Replay ==
    /\ request'.sig = "valid"
    /\ Len(webhookEvent[request'.event]) > 0

\* C1: when checkout.session.completed (paid) and payment_intent.succeeded of
\* the same payment intent have both been handled, in whichever order or
\* interleaving, and nothing else was delivered, the payment is succeeded and
\* process_successful_payment has been triggered exactly once.
C1_ActivationTriggeredOnce ==
    ( /\ ProcessedOK("evt_cs_paid")
      /\ ProcessedOK("evt_pi_ok")
      /\ \A e \in EventIds \ {"evt_cs_paid", "evt_pi_ok"} :
            Len(webhookEvent[e]) = 0 )
    => /\ payments["pi_1"].status = "succeeded"
       /\ triggered["pi_1"] = 1

\* C2: the delivery of an event whose id is already in the WebhookEvent log
\* changes no Payment, no Subscription and no task queue, adds no row to the
\* log and dispatches no handler.
C2_ReplayChangesNothing ==
    [][Replay =>
         /\ UNCHANGED business
         /\ UNCHANGED <<webhookEvent, dispatched, pc, req>>]_vars

C2_Witness ==
    /\ request.sig = "valid"
    /\ response.detail = ErrIntegrity
    /\ payments["pi_1"].exists
    /\ triggered["pi_1"] > 0

\* C3: the delivery of an event whose id is already in the WebhookEvent log
\* is answered with HTTP 200.
C3_DuplicateAnswered200 ==
    [][Replay => response'.status = 200]_vars

\* C4: a Payment that is succeeded is, one step later, succeeded or refunded.
C4_SucceededOnlyToRefunded ==
    [][\A p \in PaymentIntents :
         (payments[p].exists /\ payments[p].status = "succeeded") =>
            payments'[p].status \in {"succeeded", "refunded"}]_vars

\* C5: the activation task extends an active, unexpired Subscription by
\* 30*months days from its end_date and keeps start_date; it creates a
\* missing Subscription, and resets an inactive or expired one, to
\* start_date = now, end_date = now + 30*months days, is_active = true.
\* (The Subscription is the row as the task read it: no other writer
\* changed it between the task's read and its save.)
C5_ExtensionLaw ==
    [][\A c \in CeleryWorkers :
         LET u == task[c].user
             m == payments[task[c].payment].subscription_months
             fresh == [exists |-> TRUE, start_date |-> now,
                       end_date |-> now + 30 * m, is_active |-> TRUE]
         IN  /\ (tpc[c] = "get_or_create" /\ tpc'[c] # tpc[c]
                   /\ ~subs[u].exists)
                => subs'[u] = fresh
             /\ (tpc[c] = "save" /\ tpc'[c] # tpc[c] /\ subs[u] = task[c].sub)
                => IF subs[u].is_active /\ ~(now > subs[u].end_date)
                   THEN subs'[u] =
                          [subs[u] EXCEPT !.end_date = subs[u].end_date + 30 * m]
                   ELSE subs'[u] = fresh]_vars

C5_Witness ==
    \E c \in CeleryWorkers :
       /\ tpc[c] = "notify"
       /\ task[c].sub.exists
       /\ task[c].sub.is_active
       /\ subs[task[c].user].start_date = task[c].sub.start_date
       /\ subs[task[c].user].end_date = task[c].sub.end_date + 30

\* C6: a step that leaves a succeeded Payment succeeded leaves its
\* completed_at as it was.
C6_CompletedAtKept ==
    [][\A p \in PaymentIntents :
         ( /\ payments[p].exists
           /\ payments[p].status = "succeeded"
           /\ payments'[p].status = "succeeded" )
         => payments'[p].completed_at = payments[p].completed_at]_vars

\* C7: an event whose handler failed is, with the broker repaired and the
\* gateway redelivering it, eventually handled to completion.
C7_RedeliveryRecovers ==
    \A e \in EventIds : MarkedFailed(e) ~> ProcessedOK(e)

\* C8: a request without a signature, or with one that does not verify, is
\* answered 400, records no WebhookEvent, dispatches no handler and changes
\* no Payment, Subscription or task queue.
C8_FailsClosed ==
    [][request'.sig \in {"missing", "invalid"} =>
         /\ response'.status = 400
         /\ UNCHANGED <<webhookEvent, dispatched, pc, req>>
         /\ UNCHANGED business]_vars

C8_Witness ==
    /\ request.sig = "invalid"
    /\ response.status = 400
    /\ response.text = "Invalid signature"
    /\ \A e \in EventIds : Len(webhookEvent[e]) = 0

\* C9: a handler that raises sends its request to the except branch, which
\* marks the WebhookEvent row processed, stamps processed_at, stores the
\* error text and answers 500 with that text; no row of a failed dispatch is
\* processed with an empty processing_error.
C9_FailureRecorded ==
    [][\A w \in Workers :
         /\ (pc[w] = "delay" /\ ~brokerUp /\ StepOf(w)) => pc'[w] = "fail"
         /\ (pc[w] = "fail" /\ StepOf(w)) =>
               LET row == webhookEvent'[req[w].event][req[w].handle]
               IN  /\ row.processed
                   /\ row.processed_at # NoTime
                   /\ row.processing_error = req[w].err
                   /\ row.processing_error # ""
                   /\ response'.status = 500
                   /\ response'.detail = req[w].err]_vars

C9_Witness ==
    /\ response.status = 500
    /\ response.text = "Webhook processing failed: "
    /\ \E e \in EventIds : \E row \in Rows(e) :
          row.processed /\ row.processing_error = ErrBroker

\* C10: every event id has at most one WebhookEvent row and its handler is
\* dispatched at most once.
C10_OneRowOneDispatch ==
    \A e \in EventIds : Len(webhookEvent[e]) <= 1 /\ dispatched[e] <= 1

\* two deliveries of one event id raced: one is in its handler, the other
\* was turned away
C10_Witness ==
    \E w \in Workers :
       /\ pc[w] # "idle"
       /\ request = [event |-> req[w].event, sig |-> "valid"]
       /\ response.detail = ErrIntegrity
       /\ ~webhookEvent[req[w].event][req[w].handle].processed
       /\ \A e \in EventIds \ {req[w].event} : Len(webhookEvent[e]) = 0

\* only the paid checkout.session.completed event was delivered, it was
\* handled without error, the broker never failed and the task has run
FirstPaymentDone ==
    /\ ProcessedOK("evt_cs_paid")
    /\ \A e \in EventIds \ {"evt_cs_paid"} : Len(webhookEvent[e]) = 0
    /\ outages = 0
    /\ \A m \in TaskMessages : taskQueue[m] = 0
    /\ \A c \in CeleryWorkers : tpc[c] = "idle"

\* C11: for a user without Subscription, the paid checkout.session.completed
\* event of a payment intent without Payment creates the Payment (that
\* intent, owner U, succeeded, m months); the activation task then creates
\* Subscription(U, start = now, end = now + 30*m days, active); and when the
\* task is done exactly one confirmation e-mail task was enqueued.
C11_FirstPayment ==
    /\ [](FirstPaymentDone =>
            LET session == Event("evt_cs_paid")
                payment == payments[session.payment_intent]
                sub == subs[session.user_id]
            IN  /\ payment.exists
                /\ payment.status = "succeeded"
                /\ payment.user = session.user_id
                /\ payment.subscription_months = session.subscription_months
                /\ triggered[session.payment_intent] = 1
                /\ sub.exists
                /\ sub.end_date =
                      sub.start_date + 30 * session.subscription_months
                /\ notifications = 1)
    /\ [][/\ \A w \in Workers :
              LET session == Event(req[w].event)
                  pi == session.payment_intent
              IN  ( /\ pc[w] = "dispatch" /\ StepOf(w)
                    /\ session.type = "checkout.session.completed"
                    /\ session.payment_status = "paid"
                    /\ session.user_id # NoUser
                    /\ ~payments[pi].exists )
                  => /\ payments'[pi].exists
                     /\ payments'[pi].status = "succeeded"
                     /\ payments'[pi].user = session.user_id
                     /\ payments'[pi].subscription_months =
                           session.subscription_months
                     /\ \A p \in PaymentIntents \ {pi} :
                           payments'[p] = payments[p]
          /\ \A c \in CeleryWorkers :
              ( /\ tpc[c] = "get_or_create" /\ tpc'[c] # tpc[c]
                /\ ~subs[task[c].user].exists )
              => subs'[task[c].user] =
                   [exists |-> TRUE, start_date |-> now,
                    end_date |-> now + 30 * task[c].months,
                    is_active |-> TRUE]]_vars

C11_Witness ==
    /\ FirstPaymentDone
    /\ subs["u1"].exists
    /\ subs["u1"].is_active
    /\ notifications = 1

\* the three handlers that look a Payment up by payment intent
LookupTypes ==
    {"payment_intent.succeeded", "payment_intent.payment_failed",
     "charge.refunded"}

\* C14: payment_intent.succeeded, payment_intent.payment_failed and
\* charge.refunded for a payment intent without Payment create no Payment,
\* change no Subscription and enqueue no task; the event is then marked
\* processed without error and answered 200.
C14_MissingPaymentNoOp ==
    [][\A w \in Workers :
         LET event == Event(req[w].event)
         IN  /\ ( /\ pc[w] = "dispatch" /\ StepOf(w)
                  /\ event.type \in LookupTypes
                  /\ ~payments[event.payment_intent].exists )
                => /\ UNCHANGED business
                   /\ pc'[w] = "mark"
             /\ ( /\ pc[w] = "mark" /\ StepOf(w)
                  /\ event.type \in LookupTypes
                  /\ req[w].status = "" )
                => LET row == webhookEvent'[req[w].event][req[w].handle]
                   IN  /\ UNCHANGED business
                       /\ row.processed
                       /\ row.processing_error = ""
                       /\ response'.status = 200]_vars

C14_Witness ==
    /\ ProcessedOK("evt_refund")
    /\ response.status = 200
    /\ ~payments["pi_1"].exists
    /\ \A e \in EventIds \ {"evt_refund"} : Len(webhookEvent[e]) = 0

\* C15: a verified event, not seen before, of a type other than the four
\* handled ones is recorded in the WebhookEvent log, marked processed
\* without error and answered 200 'Webhook received'; no Payment,
\* Subscription or DailyWatchLimit changes.
C15_UnknownTypeAccepted ==
    [][/\ ( /\ request'.sig = "valid"
            /\ Event(request'.event).type \notin HandledTypes
            /\ Len(webhookEvent[request'.event]) = 0 )
          => /\ webhookEvent'[request'.event] = <<NewWebhookEvent>>
             /\ UNCHANGED <<business, limits>>
       /\ \A w \in Workers :
            ( /\ pc[w] # "idle" /\ StepOf(w)
              /\ Event(req[w].event).type \notin HandledTypes )
            => /\ UNCHANGED <<business, limits>>
               /\ pc'[w] \in {"mark", "idle"}
               /\ pc'[w] = "idle" =>
                     LET row == webhookEvent'[req[w].event][req[w].handle]
                     IN  /\ row.processed
                         /\ row.processing_error = ""
                         /\ response' =
                               HttpResponse("Webhook received", "", 200)]_vars

C15_Witness ==
    /\ ProcessedOK("evt_other")
    /\ response = HttpResponse("Webhook received", "", 200)
    /\ \A e \in EventIds \ {"evt_other"} : Len(webhookEvent[e]) = 0

\* C18: handling checkout.session.completed for a payment intent whose
\* Payment exists sets the status to succeeded when the session is paid and
\* the status was not succeeded, and leaves the status as it was otherwise.
C18_ExistingRecordStatus ==
    [][\A w \in Workers :
         LET session == Event(req[w].event)
             pi == session.payment_intent
         IN  (pc[w] = "cs_update" /\ StepOf(w)) =>
                payments'[pi].status =
                   IF session.payment_status = "paid"
                      /\ payments[pi].status # "succeeded"
                   THEN "succeeded"
                   ELSE payments[pi].status]_vars

\* C19: every succeeded Payment has completed_at set, and completed_at is
\* set only by a step that leaves the Payment succeeded.
C19_SucceededHasCompletedAt ==
    /\ [](\A p \in PaymentIntents :
            (payments[p].exists /\ payments[p].status = "succeeded")
            => payments[p].completed_at # NoTime)
    /\ [][\A p \in PaymentIntents :
            (payments[p].completed_at = NoTime
               /\ payments'[p].completed_at # NoTime)
            => payments'[p].status = "succeeded"]_vars

\* the user holds an active Subscription that has not run out
IsSubscriber(u) ==
    /\ u \in Users
    /\ subs[u].exists
    /\ subs[u].is_active
    /\ ~(now > subs[u].end_date)

\* session s returns in this step from the DailyWatchLimit row it reads
ReturnsFromRow(s) == qpc[s] \in {"get", "create"} /\ qpc'[s] = "idle"

\* a call returns in its first step: no session moves
ReturnsAtOnce ==
    /\ ret'.op # ""
    /\ qpc' = qpc
    /\ ret' # ret \/ calls' # calls

\* C12: for a user without active unexpired Subscription whose row of today
\* holds w watched seconds, get_daily_watch_limit returns w and remaining
\* max(0, 3600 - w), and can_watch_video allows iff w < 3600, denying with
\* the limit-reached message; for a subscriber can_watch_video allows
\* whatever the row holds.
C12_QuotaGate ==
    [][/\ \A s \in Sessions :
            ReturnsFromRow(s) =>
               LET w == limits'[<<qloc[s].user, qloc[s].date>>][1]
               IN  /\ ret'.op = qloc[s].op
                   /\ ret'.watched = w
                   /\ ret'.remaining = IF w >= 3600 THEN 0 ELSE 3600 - w
                   /\ ~ret'.has_sub
                   /\ qloc[s].op = "can_watch_video" =>
                         /\ ret'.allowed <=> w < 3600
                         /\ ~ret'.allowed =>
                               ret'.message =
                                  "Daily watch limit reached. Subscribe to watch unlimited!"
       /\ ( /\ ReturnsAtOnce
            /\ ret'.op = "can_watch_video"
            /\ IsSubscriber(ret'.user) )
          => ret'.allowed]_vars

\* the row holds 3600 seconds and the viewer is turned away
C12_Witness ==
    /\ ret.op = "can_watch_video"
    /\ ret.watched = 3600
    /\ ret.remaining = 0
    /\ ~ret.allowed
    /\ ~IsSubscriber(ret.user)

\* C17: for a subscriber get_daily_watch_limit returns (0, -1, True) and
\* update_watch_time returns at once, neither creating nor changing a
\* DailyWatchLimit row; can_watch_video turns an unauthenticated user away
\* and touches no row either.
C17_SubscribersBypass ==
    [][/\ \A s \in Sessions :
            (qpc[s] = "idle" /\ qpc'[s] # "idle")
            => ~IsSubscriber(qloc'[s].user) /\ qloc'[s].user # AnonymousUser
       /\ (ReturnsAtOnce /\ IsSubscriber(ret'.user))
          => /\ limits' = limits
             /\ ret'.op = "get_daily_watch_limit" =>
                   /\ ret'.watched = 0
                   /\ ret'.remaining = -1
                   /\ ret'.has_sub
             /\ ret'.op = "can_watch_video" => ret'.allowed
       /\ (ReturnsAtOnce /\ ret'.user = AnonymousUser)
          => /\ limits' = limits
             /\ ret'.op = "can_watch_video"
             /\ ~ret'.allowed]_vars

\* a subscriber reported watch time and the ledger stayed empty
C17_Witness ==
    /\ ret.op = "update_watch_time"
    /\ IsSubscriber(ret.user)
    /\ calls = MaxCalls
    /\ \A k \in Users \X Dates : limits[k] = <<>>

\* C13: cleanup_pending_payments deletes exactly the Payments that are
\* pending and were created more than 24 hours before the sweep; every other
\* Payment is kept as it is; the count it returns is the number deleted.
C13_StalePendingSweep ==
    [][/\ (cleanup.pc = "idle" /\ cleanup'.pc = "delete")
          => cleanup'.cutoff_time = 24 * now - 24
       /\ (cleanup.pc = "delete" /\ cleanup'.pc = "idle")
          => LET stale(p) == /\ payments[p].exists
                             /\ payments[p].status = "pending"
                             /\ created_at[p] < cleanup.cutoff_time
             IN  /\ \A p \in DOMAIN payments :
                       IF stale(p)
                       THEN ~payments'[p].exists
                       ELSE /\ payments'[p] = payments[p]
                            /\ created_at'[p] = created_at[p]
                 /\ cleanup'.count =
                       Cardinality({p \in DOMAIN payments : stale(p)})]_vars

\* of two pending Payments the one 25 hours old is gone, the one 23 hours
\* old is kept
C13_Witness ==
    /\ cleanup.pc = "idle"
    /\ cleanup.cutoff_time = 24 * now - 24
    /\ cleanup.count = 1
    /\ ~payments["pi_1"].exists
    /\ payments["pi_2"].status = "pending"
    /\ created_at["pi_2"] = 24 * now - 23

\* C16: deactivate_expired_subscriptions selects exactly the Subscriptions
\* that are active with end_date < now, sets is_active = false on each of
\* them and changes nothing else: no other row, no start_date, no end_date;
\* the count it returns is the number of rows it deactivated.
C16_ExpirySweep ==
    [][/\ (sweep = {} /\ sweep' # {})
          => /\ sweep' = {u \in DOMAIN subs : /\ subs[u].exists
                                               /\ subs[u].is_active
                                               /\ subs[u].end_date < now}
             /\ swept'.count = Cardinality(sweep')
             /\ subs' = subs
       /\ (sweep' # sweep /\ sweep # {})
          => /\ sweep' \subseteq sweep
             /\ Cardinality(sweep \ sweep') = 1
             /\ \A u \in DOMAIN subs :
                   subs'[u] = IF u \in sweep \ sweep'
                              THEN [subs[u] EXCEPT !.is_active = FALSE]
                              ELSE subs[u]
       /\ (sweep # {} /\ sweep' = {})
          => /\ swept.count = Cardinality(swept.done \cup sweep)
             /\ \A u \in swept.done \cup sweep : ~subs'[u].is_active]_vars

\* the sweep counted two rows and is half way through them, while a third
\* state of affairs, a row ending today, is not among them
C16_Witness ==
    /\ swept.count = 2
    /\ swept.done = {"u1"}
    /\ sweep = {"u2"}
    /\ ~subs["u1"].is_active
    /\ subs["u2"].is_active
    /\ subs["u2"].end_date < now

\* C20: within one delivery the WebhookEvent row is written first, then
\* the handler runs, then the row is marked: a step that takes a request
\* changes no Payment, Subscription or queue, and every later step of the
\* request finds its row in the log; a worker killed in between leaves the
\* row in the log with processed = false; a row is marked processed only by
\* the request that wrote it, after its dispatch, and a processed row never
\* changes again.
C20_WriteDispatchMark ==
    [][/\ \A w \in Workers :
            /\ (pc[w] = "idle" /\ StepOf(w))
               => /\ UNCHANGED business
                  /\ pc'[w] = "dispatch"
                  /\ req'[w].handle = Len(webhookEvent'[req'[w].event])
                  /\ ~webhookEvent'[req'[w].event][req'[w].handle].processed
            /\ (pc[w] # "idle" /\ StepOf(w))
               => /\ req[w].handle \in 1 .. Len(webhookEvent[req[w].event])
                  /\ ~webhookEvent[req[w].event][req[w].handle].processed
            /\ (pc[w] # "idle" /\ StepOf(w) /\ kills' # kills)
               => /\ webhookEvent' = webhookEvent
                  /\ req[w].handle \in 1 .. Len(webhookEvent'[req[w].event])
                  /\ ~webhookEvent'[req[w].event][req[w].handle].processed
       /\ \A e \in EventIds :
            /\ Len(webhookEvent'[e]) >= Len(webhookEvent[e])
            /\ \A i \in 1 .. Len(webhookEvent[e]) :
                  /\ webhookEvent[e][i].processed
                     => webhookEvent'[e][i] = webhookEvent[e][i]
                  /\ (~webhookEvent[e][i].processed
                        /\ webhookEvent'[e][i].processed)
                     => /\ dispatched[e] >= 1
                        /\ \E w \in Workers :
                              /\ pc[w] \in {"mark", "fail"}
                              /\ pc'[w] = "idle"
                              /\ req[w].event = e
                              /\ req[w].handle = i]_vars

\* a worker was killed after its handler had created the Payment and before
\* the mark: the row is in the log, unprocessed, and nobody is serving it
C20_Witness ==
    /\ kills = 1
    /\ \A w \in Workers : pc[w] = "idle"
    /\ Len(webhookEvent["evt_cs_paid"]) = 1
    /\ ~webhookEvent["evt_cs_paid"][1].processed
    /\ dispatched["evt_cs_paid"] = 1
    /\ payments["pi_1"].exists

\* C21: one activation trigger mutates the Subscription at most once: as
\* long as process_successful_payment was triggered once for the payment,
\* the Subscription of its user spans no more than 30*months days.
C21_MutatedOncePerTrigger ==
    \A p \in PaymentIntents :
       (payments[p].exists /\ triggered[p] <= 1 /\ subs[payments[p].user].exists)
       => subs[payments[p].user].end_date <=
             subs[payments[p].user].start_date
                + DaysPerMonth * payments[p].subscription_months

\* C22: the get_or_create of the DailyWatchLimit row is race-safe: there is
\* never more than one row per (user, date), and a call whose INSERT meets
\* a row created meanwhile goes on with that row instead of failing.
C22_OneRowPerUserAndDay ==
    /\ [](\A k \in DOMAIN limits : Len(limits[k]) <= 1)
    /\ [][\A s \in Sessions :
            (qpc[s] = "create" /\ qpc'[s] # "create")
            => LET key == <<qloc[s].user, qloc[s].date>>
               IN  /\ Len(limits'[key]) = 1
                   /\ IF qloc[s].op = "update_watch_time"
                      THEN /\ qpc'[s] = "save"
                           /\ qloc'[s].row = 1
                           /\ qloc'[s].watched_seconds = limits'[key][1]
                      ELSE /\ qpc'[s] = "idle"
                           /\ ret'.op = qloc[s].op
                           /\ ret'.watched = limits'[key][1]]_vars

\* two sessions found no row; one has inserted it and moved on, the other
\* is about to INSERT the same (user, date)
C22_Witness ==
    \E s, t \in Sessions :
       /\ s # t
       /\ qpc[s] = "create"
       /\ qpc[t] = "save"
       /\ qloc[s].user = qloc[t].user
       /\ qloc[s].date = qloc[t].date
       /\ Len(limits[<<qloc[s].user, qloc[s].date>>]) = 1
       /\ ~has_active_subscription(qloc[s].user)

\* session s holds in qloc the row as it read it, and no other call has
\* written the row since
ReadIsCurrent(s) ==
    limits[<<qloc[s].user, qloc[s].date>>][qloc[s].row]
       = qloc[s].watched_seconds

\* C23: update_watch_time of a non-subscriber writes the watched_seconds it
\* read plus the seconds reported, which is the row's previous value plus
\* the seconds when no other call wrote the row in between; the sum is never
\* refused or cut, so the row may exceed 3600; the remaining seconds
\* returned from a row are max(0, 3600 - watched_seconds), never negative.
C23_AdditiveUnclamped ==
    [][\A s \in Sessions :
          LET key == <<qloc[s].user, qloc[s].date>>
          IN  /\ (qpc[s] \in {"get", "create"} /\ qpc'[s] = "save")
                 => qloc'[s].watched_seconds = limits'[key][1]
              /\ (qpc[s] = "save" /\ qpc'[s] = "idle")
                 => /\ ret'.op = "update_watch_time"
                    /\ limits'[key][1] =
                          qloc[s].watched_seconds + qloc[s].seconds
                    /\ ReadIsCurrent(s)
                       => limits'[key][1] = limits[key][1] + qloc[s].seconds
                    /\ \A k \in DOMAIN limits :
                          k # key => limits'[k] = limits[k]
              /\ ReturnsFromRow(s)
                 => /\ ret'.remaining >= 0
                    /\ ret'.remaining + limits'[key][1] >= 3600
                    /\ ret'.remaining > 0
                       => ret'.remaining + limits'[key][1] = 3600]_vars

\* the row went past the daily limit and the remainder reported is zero
C23_Witness ==
    /\ ret.op = "get_daily_watch_limit"
    /\ ret.watched > 3600
    /\ ret.remaining = 0
    /\ \E k \in DOMAIN limits : limits[k] = <<ret.watched>>

\* C26: watch-time increments are additive under concurrency: every
\* add_watch_time raises the row by the seconds of its call, whatever other
\* calls did since the row was read, so no increment is lost.
C26_NoLostIncrement ==
    [][\A s \in Sessions :
          (qpc[s] = "save" /\ qpc'[s] = "idle")
          => LET key == <<qloc[s].user, qloc[s].date>>
             IN  limits'[key][qloc[s].row] =
                    limits[key][qloc[s].row] + qloc[s].seconds]_vars

\* a Celery slot takes message m in this step
Takes(m) == taskQueue'[m] < taskQueue[m]

\* C28: process_successful_payment looks at the Payment when it runs: a run
\* that finds the Payment missing or not succeeded ends at once, leaving
\* Subscriptions and notifications as they are, and a run goes on to the
\* Subscription only for a Payment that is succeeded at that moment.
C28_TaskRechecksPayment ==
    [][/\ \A m \in DOMAIN taskQueue :
            ( /\ Takes(m)
              /\ ~(payments[m[1]].exists
                     /\ payments[m[1]].status = "succeeded") )
            => /\ tpc' = tpc
               /\ task' = task
               /\ subs' = subs
               /\ notifications' = notifications
       /\ \A c \in DOMAIN tpc :
            (tpc[c] = "idle" /\ tpc'[c] # "idle")
            => /\ payments[task'[c].payment].exists
               /\ payments[task'[c].payment].status = "succeeded"
               /\ Takes(<<task'[c].payment, task'[c].retries>>)]_vars

\* the payment was triggered once and refunded or failed before the task
\* ran: the message is consumed and nothing was granted or announced
C28_Witness ==
    /\ triggered["pi_1"] = 1
    /\ payments["pi_1"].status \in {"refunded", "failed"}
    /\ \A m \in DOMAIN taskQueue : taskQueue[m] = 0
    /\ \A c \in DOMAIN tpc : tpc[c] = "idle"
    /\ ~subs[payments["pi_1"].user].exists
    /\ notifications = 0

\* C25: the save of _handle_charge_refunded sets the status of the Payment
\* of the charge to refunded whatever it was, and changes nothing else: not
\* its completed_at, user or months, no other Payment, no Subscription, and
\* it enqueues nothing.
C25_RefundChangesStatusOnly ==
    [][\A w \in Workers :
          (pc[w] = "cr_save" /\ pc'[w] # "cr_save")
          => LET pi == Event(req[w].event).payment_intent
             IN  /\ payments'[pi].exists
                 /\ payments'[pi].status = "refunded"
                 /\ payments'[pi].completed_at = payments[pi].completed_at
                 /\ payments'[pi].user = payments[pi].user
                 /\ payments'[pi].subscription_months =
                       payments[pi].subscription_months
                 /\ \A p \in DOMAIN payments :
                       p # pi => payments'[p] = payments[p]
                 /\ subs' = subs
                 /\ taskQueue' = taskQueue
                 /\ notifications' = notifications
                 /\ triggered' = triggered]_vars

\* a succeeded payment was refunded after its Subscription was granted: the
\* Subscription is still active
C25_Witness ==
    /\ ProcessedOK("evt_refund")
    /\ ProcessedOK("evt_cs_paid")
    /\ payments["pi_1"].status = "refunded"
    /\ subs[payments["pi_1"].user].exists
    /\ subs[payments["pi_1"].user].is_active

\* Celery slot c saves in this step the Subscription of user u for a
\* Payment of u that was succeeded when the run began
ActivationRun(c, u) ==
    /\ tpc[c] = "save"
    /\ tpc'[c] = "notify"
    /\ task[c].user = u
    /\ payments[task[c].payment].user = u

\* C24: a Subscription with is_active = False counts as no subscription for
\* has_active_subscription, and is_active goes from False to True only in
\* the save of a process_successful_payment run for a payment of that user:
\* never by the expiry sweep, a webhook handler or the clock.
C24_InactiveUntilPayment ==
    /\ [](\A u \in DOMAIN subs :
            (subs[u].exists /\ ~subs[u].is_active)
            => ~has_active_subscription(u))
    /\ [][\A u \in DOMAIN subs :
            (subs[u].exists /\ ~subs[u].is_active /\ subs'[u].is_active)
            => \E c \in DOMAIN tpc : ActivationRun(c, u)]_vars

\* the sweep deactivated the Subscription and a refund was handled after
\* that: the Subscription is still inactive
C24_Witness ==
    /\ subs["u1"].exists
    /\ ~subs["u1"].is_active
    /\ sweep = {}
    /\ ProcessedOK("evt_refund")
    /\ payments["pi_1"].status = "refunded"

\* both tasks of the two payments have run to their end, each once, while
\* the Subscription was active and not expired
BothActivationsDone ==
    /\ DOMAIN tpc = StackSlots
    /\ \A c \in StackSlots : tpc[c] = "idle"
    /\ \A m \in DOMAIN taskQueue : taskQueue[m] = 0
    /\ notifications = 2
    /\ outages = 0
    /\ now = 0

\* C27: stacking is additive under concurrency: when the tasks of two
\* succeeded payments of m1 and m2 months of one user, whose active
\* Subscription ends on day E = TickDays, have both run in any interleaving,
\* end_date is E + 30*(m1 + m2).
C27_StackingAdditive ==
    BothActivationsDone
    => subs["u1"].end_date =
          TickDays
             + DaysPerMonth * (StackMonths["pi_1"] + StackMonths["pi_2"])

\* C29: the end_date of a Subscription never decreases: every step that
\* changes it moves it later.
C29_EndDateNeverDecreases ==
    [][\A u \in DOMAIN subs :
          (subs[u].exists /\ subs'[u].exists)
          => subs'[u].end_date >= subs[u].end_date]_vars

\* C30: every Payment the webhook handlers create or change has a status
\* among processing, succeeded, failed and refunded, never pending or
\* canceled, so cleanup_pending_payments counts and deletes none of them.
C30_WebhookStatuses ==
    /\ [](\A p \in DOMAIN payments :
            payments[p].exists
            => payments[p].status \in
                  {"processing", "succeeded", "failed", "refunded"})
    /\ [][/\ (cleanup.pc = "idle" /\ cleanup'.pc = "delete")
             => cleanup'.count = 0
          /\ (cleanup.pc = "delete" /\ cleanup'.pc = "idle")
             => /\ payments' = payments
                /\ created_at' = created_at]_vars

\* the sweep has run with a cutoff later than the creation of a Payment
\* that a checkout left in processing, and the Payment is still there
C30_Witness ==
    /\ payments["pi_1"].exists
    /\ payments["pi_1"].status = "processing"
    /\ created_at["pi_1"] # NoTime
    /\ cleanup.pc = "idle"
    /\ cleanup.cutoff_time > created_at["pi_1"]

====
